---- MODULE Spec2Model ----
(***************************************************************************)
(* Model of gtk_popup.py: PopupApp keeps a dict of calls keyed by the      *)
(* D-Bus object path, one CallWindow per call and one GLib timeout source  *)
(* per active call.  Every D-Bus signal, GLib timeout and GTK signal is    *)
(* dispatched on the single GLib main loop, so each handler is one atomic  *)
(* step.  Handlers are written as operators over a record s holding the    *)
(* mutable program state, in the order of the statements of the source.    *)
(***************************************************************************)
EXTENDS Integers, Sequences, FiniteSets, TLC

(* ------------------------------ bounds --------------------------------- *)
MaxWindows == 2        \* CallWindow objects ever constructed
MaxSources == 2        \* GLib source ids ever handed out
MaxTime == 2           \* last clock reading, in clock units
Res == 2               \* clock units per second (time.monotonic() is a float)

(* --------------------------- input alphabet ---------------------------- *)
Paths == {"/c1", "/c2"}
CALL_IFACE == "org.pipewire.Telephony.Call1"
PROPS_IFACE == "org.freedesktop.DBus.Properties"
Ifaces == {CALL_IFACE, PROPS_IFACE}
States == {"incoming", "active", "disconnected", "dialing", ""}
Callers == {""}
PropKeys == {"State", "LineIdentification"}

None == "None"         \* Python None where the other values are strings
NoTime == -1           \* Python None in call["start_time"]
NoTimer == 0           \* Python None in call["timer_id"]; GLib ids are > 0

EmptyDict == [k \in {} |-> ""]

\* dict.get(key, default)
Get(d, k, default) == IF k \in DOMAIN d THEN d[k] ELSE default

\* d[k] = v
Put(d, k, v) == [x \in (DOMAIN d) \cup {k} |-> IF x = k THEN v ELSE d[x]]

\* d without key k
Del(d, k) == [x \in (DOMAIN d) \ {k} |-> d[x]]

\* property dicts carried by InterfacesAdded / PropertiesChanged
PropsSet ==
  { [k \in dom |-> IF k = "State" THEN st ELSE c] :
      dom \in SUBSET PropKeys, st \in States, c \in Callers }

\* the interfaces argument of InterfacesAdded: interface name -> properties
InterfacesSet ==
  { [i \in {PROPS_IFACE} |-> EmptyDict] } \cup
  { [i \in {CALL_IFACE} |-> pr] : pr \in PropsSet }

\* the interfaces argument of InterfacesRemoved: a list of interface names
RemovedSet == { {PROPS_IFACE}, {CALL_IFACE}, Ifaces }

\* keyword arguments of PropertiesChanged (path_keyword="path")
KwargsSet == {EmptyDict} \cup { [k \in {"path"} |-> p] : p \in Paths }

\* (interface, changed_props, kwargs) of PropertiesChanged: every state value
\* on the call interface of a path, and the signals a handler must drop
ChangedSet ==
  { <<CALL_IFACE, [k \in dom |-> st], [k \in {"path"} |-> p]>> :
      dom \in SUBSET {"State"}, st \in States, p \in Paths } \cup
  { <<PROPS_IFACE, [k \in {"State"} |-> st], [k \in {"path"} |-> p]>> :
      st \in {"active", "disconnected"}, p \in Paths } \cup
  { <<CALL_IFACE, [k \in {"State"} |-> st], EmptyDict>> :
      st \in {"active", "disconnected"} }

(* ------------------------------- state --------------------------------- *)
VARIABLES
  calls,        \* self.calls: call_path -> data dict
  windows,      \* every CallWindow constructed so far, by construction order
  sources,      \* live GLib timeout sources: id -> [interval, call_path]
  next_source,  \* the id GLib hands out next
  now,          \* time.monotonic(), in 1/Res seconds
  last,         \* the event dispatched by the last step
  effects       \* the toolkit / bus calls made by the last step, in order

vars == <<calls, windows, sources, next_source, now, last, effects>>

\* the mutable program state as one value
Cur == [calls |-> calls, windows |-> windows, sources |-> sources,
        next_source |-> next_source, effects |-> <<>>]

Effect(op, id, path, ok) == [op |-> op, id |-> id, path |-> path, ok |-> ok]

Emit(s, e) == [s EXCEPT !.effects = Append(@, e)]

(* ------------------------- decimal formatting -------------------------- *)
Digit == <<"0", "1", "2", "3", "4", "5", "6", "7", "8", "9">>

RECURSIVE ToStr(_)
ToStr(n) == IF n < 10 THEN Digit[n + 1] ELSE ToStr(n \div 10) \o Digit[(n % 10) + 1]

\* f"{n:02d}" for n >= 0
Fmt02d(n) == IF n < 10 THEN "0" \o ToStr(n) ELSE ToStr(n)

Max(a, b) == IF a >= b THEN a ELSE b

(* ------------------------------ CallWindow ----------------------------- *)
\* CallWindow.__init__; call_path is the path its callbacks are closed over
CallWindow(caller_id, call_path) ==
  [ call_path |-> call_path,
    state_label |-> "Incoming call",
    caller_label |-> "From: " \o (IF caller_id = "" THEN "Unknown" ELSE caller_id),
    timer_label |-> "00:00",
    answer_sensitive |-> TRUE,
    hangup_sensitive |-> TRUE,
    visible |-> FALSE,
    alive |-> TRUE ]

\* Gtk.Widget.show_all()
show_all(s, w) ==
  Emit([s EXCEPT !.windows[w].visible = TRUE], Effect("show_all", w, "", TRUE))

\* Gtk.Window.present()
present(s, w) == Emit(s, Effect("present", w, "", s.windows[w].alive))

show_incoming(s, w) ==
  present([s EXCEPT !.windows[w].state_label = "Incoming call",
                    !.windows[w].answer_sensitive = TRUE,
                    !.windows[w].hangup_sensitive = TRUE,
                    !.windows[w].timer_label = "Ringing..."], w)

show_active(s, w) ==
  present([s EXCEPT !.windows[w].state_label = "Call in progress",
                    !.windows[w].answer_sensitive = FALSE,
                    !.windows[w].hangup_sensitive = TRUE], w)

\* update_timer_label that wraps the minutes at the hour
update_timer_label_wrap(s, w, seconds) ==
  LET t == Max(seconds, 0)
  IN [s EXCEPT !.windows[w].timer_label =
        Fmt02d((t \div 60) % 60) \o ":" \o Fmt02d(t % 60)]

update_timer_label(s, w, seconds) ==
  LET t == Max(seconds, 0)
  IN [s EXCEPT !.windows[w].timer_label = Fmt02d(t \div 60) \o ":" \o Fmt02d(t % 60)]

(* -------------------------------- GLib --------------------------------- *)
\* GLib.source_remove(id): ok records whether the id was still attached
source_remove(s, id) ==
  Emit([s EXCEPT !.sources = Del(@, id)],
       Effect("source_remove", id, "", id \in DOMAIN s.sources))

\* GLib.timeout_add_seconds(interval, lambda: self._update_timer(call_path))
timeout_add_seconds(s, interval, call_path) ==
  Emit([s EXCEPT !.sources = Put(@, s.next_source,
                                 [interval |-> interval, call_path |-> call_path]),
                 !.next_source = @ + 1],
       Effect("timeout_add_seconds", s.next_source, call_path, TRUE))

(* ------------------------------ PopupApp ------------------------------- *)
\* int(time.monotonic() - start_time)
Elapsed(start_time) == (now - start_time) \div Res

\* _update_timer that keeps the timer running when the call is gone
_update_timer_keep_running(s, call_path) ==
  IF \/ call_path \notin DOMAIN s.calls
     \/ s.calls[call_path].state # "active"
     \/ s.calls[call_path].start_time = NoTime
  THEN [st |-> s, ret |-> TRUE]
  ELSE [st |-> update_timer_label(s, s.calls[call_path].window,
                                  Elapsed(s.calls[call_path].start_time)),
        ret |-> TRUE]

\* _update_timer: the state afterwards and the value returned to GLib
_update_timer(s, call_path) ==
  IF \/ call_path \notin DOMAIN s.calls
     \/ s.calls[call_path].state # "active"
     \/ s.calls[call_path].start_time = NoTime
  THEN [st |-> s, ret |-> FALSE]
  ELSE [st |-> update_timer_label(s, s.calls[call_path].window,
                                  Elapsed(s.calls[call_path].start_time)),
        ret |-> TRUE]

\* _mark_active that starts the timer but does not keep its id
_mark_active_id_not_kept(s, call_path) ==
  IF call_path \notin DOMAIN s.calls THEN s
  ELSE
    LET s1 == [s EXCEPT !.calls[call_path].state = "active",
                        !.calls[call_path].start_time = now]
        s2 == show_active(s1, s1.calls[call_path].window)
        s3 == IF s2.calls[call_path].timer_id # NoTimer
              THEN source_remove(s2, s2.calls[call_path].timer_id)
              ELSE s2
        s4 == timeout_add_seconds(s3, 1, call_path)
    IN _update_timer(s4, call_path).st

\* _mark_active that starts a new timer without cancelling the one it has
_mark_active_no_cancel(s, call_path) ==
  IF call_path \notin DOMAIN s.calls THEN s
  ELSE
    LET s1 == [s EXCEPT !.calls[call_path].state = "active",
                        !.calls[call_path].start_time = now]
        s2 == show_active(s1, s1.calls[call_path].window)
        s4 == [timeout_add_seconds(s2, 1, call_path)
                 EXCEPT !.calls[call_path].timer_id = s2.next_source]
    IN _update_timer(s4, call_path).st

\* _mark_active that does not record start_time
_mark_active_no_start_time(s, call_path) ==
  IF call_path \notin DOMAIN s.calls THEN s
  ELSE
    LET s1 == [s EXCEPT !.calls[call_path].state = "active"]
        s2 == show_active(s1, s1.calls[call_path].window)
        s3 == IF s2.calls[call_path].timer_id # NoTimer
              THEN source_remove(s2, s2.calls[call_path].timer_id)
              ELSE s2
        s4 == [timeout_add_seconds(s3, 1, call_path)
                 EXCEPT !.calls[call_path].timer_id = s3.next_source]
    IN _update_timer(s4, call_path).st

_mark_active(s, call_path) ==
  IF call_path \notin DOMAIN s.calls THEN s
  ELSE
    LET s1 == [s EXCEPT !.calls[call_path].state = "active",
                        !.calls[call_path].start_time = now]
        s2 == show_active(s1, s1.calls[call_path].window)
        s3 == IF s2.calls[call_path].timer_id # NoTimer
              THEN source_remove(s2, s2.calls[call_path].timer_id)
              ELSE s2
        s4 == [timeout_add_seconds(s3, 1, call_path)
                 EXCEPT !.calls[call_path].timer_id = s3.next_source]
    IN _update_timer(s4, call_path).st

\* a destroyed window: unmapped, and its child widgets are destroyed with it
Destroyed(win) ==
  [win EXCEPT !.alive = FALSE, !.visible = FALSE,
              !.state_label = "", !.caller_label = "", !.timer_label = "",
              !.answer_sensitive = FALSE, !.hangup_sensitive = FALSE]

RECURSIVE _close_call(_, _)
RECURSIVE destroy(_, _)

\* Gtk.Widget.destroy(): emits "destroy", connected to _close_call(call_path)
destroy(s, w) ==
  IF ~s.windows[w].alive
  THEN Emit(s, Effect("destroy", w, "", FALSE))
  ELSE _close_call(
         Emit([s EXCEPT !.windows[w] = Destroyed(@)], Effect("destroy", w, "", TRUE)),
         s.windows[w].call_path)

\* _close_call that destroys the window while the entry is still in the dict
_close_call_destroy_first(s, call_path) ==
  IF call_path \notin DOMAIN s.calls THEN s
  ELSE
    LET call == s.calls[call_path]
        s2 == IF call.timer_id # NoTimer THEN source_remove(s, call.timer_id) ELSE s
        s3 == destroy(s2, call.window)
    IN [s3 EXCEPT !.calls = Del(@, call_path)]

\* _close_call that leaves the call's timer running
_close_call_keep_timer(s, call_path) ==
  IF call_path \notin DOMAIN s.calls THEN s
  ELSE destroy([s EXCEPT !.calls = Del(@, call_path)], s.calls[call_path].window)

_close_call(s, call_path) ==
  IF call_path \notin DOMAIN s.calls THEN s
  ELSE
    LET call == s.calls[call_path]
        s1 == [s EXCEPT !.calls = Del(@, call_path)]
        s2 == IF call.timer_id # NoTimer THEN source_remove(s1, call.timer_id) ELSE s1
    IN destroy(s2, call.window)

\* _show_window that puts a tracked call's window back into incoming mode
_show_window_reshow(s, call_path, caller_id, initial_state) ==
  IF call_path \in DOMAIN s.calls
  THEN show_incoming(s, s.calls[call_path].window)
  ELSE
    LET w == Len(s.windows) + 1
        s1 == show_all([s EXCEPT !.windows = Append(@, CallWindow(caller_id, call_path))], w)
        s2 == [s1 EXCEPT !.calls = Put(@, call_path,
                 [ caller_id |-> IF caller_id = "" THEN "Unknown" ELSE caller_id,
                   state |-> initial_state,
                   window |-> w,
                   start_time |-> NoTime,
                   timer_id |-> NoTimer ])]
    IN IF initial_state = "active" THEN _mark_active(s2, call_path)
       ELSE show_incoming(s2, w)

\* _show_window without the "already tracked" check
_show_window_no_check(s, call_path, caller_id, initial_state) ==
  LET w == Len(s.windows) + 1
      s1 == show_all([s EXCEPT !.windows = Append(@, CallWindow(caller_id, call_path))], w)
      s2 == [s1 EXCEPT !.calls = Put(@, call_path,
               [ caller_id |-> IF caller_id = "" THEN "Unknown" ELSE caller_id,
                 state |-> initial_state,
                 window |-> w,
                 start_time |-> NoTime,
                 timer_id |-> NoTimer ])]
  IN IF initial_state = "active" THEN _mark_active(s2, call_path)
     ELSE show_incoming(s2, w)

\* _show_window that stamps start_time when the entry is created
_show_window_stamped(s, call_path, caller_id, initial_state) ==
  IF call_path \in DOMAIN s.calls
  THEN present(s, s.calls[call_path].window)
  ELSE
    LET w == Len(s.windows) + 1
        s1 == show_all([s EXCEPT !.windows = Append(@, CallWindow(caller_id, call_path))], w)
        s2 == [s1 EXCEPT !.calls = Put(@, call_path,
                 [ caller_id |-> IF caller_id = "" THEN "Unknown" ELSE caller_id,
                   state |-> initial_state,
                   window |-> w,
                   start_time |-> now,
                   timer_id |-> NoTimer ])]
    IN IF initial_state = "active" THEN _mark_active(s2, call_path)
       ELSE show_incoming(s2, w)

_show_window(s, call_path, caller_id, initial_state) ==
  IF call_path \in DOMAIN s.calls
  THEN present(s, s.calls[call_path].window)
  ELSE
    LET w == Len(s.windows) + 1
        s1 == show_all([s EXCEPT !.windows = Append(@, CallWindow(caller_id, call_path))], w)
        s2 == [s1 EXCEPT !.calls = Put(@, call_path,
                 [ caller_id |-> IF caller_id = "" THEN "Unknown" ELSE caller_id,
                   state |-> initial_state,
                   window |-> w,
                   start_time |-> NoTime,
                   timer_id |-> NoTimer ])]
    IN IF initial_state = "active" THEN _mark_active(s2, call_path)
       ELSE show_incoming(s2, w)

\* on_interfaces_added that looks the path up before it looks at the state
on_interfaces_added_tracked_first(s, path, interfaces) ==
  LET call_props == Get(interfaces, CALL_IFACE, EmptyDict)
  IN IF DOMAIN call_props = {} THEN s
     ELSE LET state == Get(call_props, "State", "")
              caller_id == Get(call_props, "LineIdentification", "Unknown")
          IN IF path \in DOMAIN s.calls THEN present(s, s.calls[path].window)
             ELSE IF state = "incoming"
             THEN _show_window(s, path, caller_id, "incoming")
             ELSE s

\* on_interfaces_added that also opens a window for a call first seen active
on_interfaces_added_join(s, path, interfaces) ==
  LET call_props == Get(interfaces, CALL_IFACE, EmptyDict)
  IN IF DOMAIN call_props = {} THEN s
     ELSE LET state == Get(call_props, "State", "")
              caller_id == Get(call_props, "LineIdentification", "Unknown")
          IN IF state \in {"incoming", "active"}
             THEN _show_window(s, path, caller_id, state)
             ELSE s

on_interfaces_added(s, path, interfaces) ==
  LET call_props == Get(interfaces, CALL_IFACE, EmptyDict)
  IN IF DOMAIN call_props = {} THEN s
     ELSE LET state == Get(call_props, "State", "")
              caller_id == Get(call_props, "LineIdentification", "Unknown")
          IN IF state = "incoming"
             THEN _show_window(s, path, caller_id, "incoming")
             ELSE s

on_interfaces_removed(s, path, interfaces) ==
  IF CALL_IFACE \notin interfaces THEN s
  ELSE _close_call(s, path)

\* on_properties_changed that closes the call on every state but "active"
on_properties_changed_close_other(s, interface, changed_props, kwargs) ==
  IF interface # CALL_IFACE THEN s
  ELSE LET state == Get(changed_props, "State", None)
       IN IF state = None \/ state = "" THEN s
          ELSE LET call_path == Get(kwargs, "path", None)
               IN IF call_path = None THEN s
                  ELSE IF state = "active" THEN _mark_active(s, call_path)
                  ELSE _close_call(s, call_path)

\* on_properties_changed that does not look at the interface of the signal
on_properties_changed_any_iface(s, interface, changed_props, kwargs) ==
  LET state == Get(changed_props, "State", None)
  IN IF state = None \/ state = "" THEN s
     ELSE LET call_path == Get(kwargs, "path", None)
          IN IF call_path = None THEN s
             ELSE IF state = "active" THEN _mark_active(s, call_path)
             ELSE IF state = "disconnected" THEN _close_call(s, call_path)
             ELSE s

\* on_properties_changed that opens a window for an "active" it has no entry for
on_properties_changed_show(s, interface, changed_props, kwargs) ==
  IF interface # CALL_IFACE THEN s
  ELSE LET state == Get(changed_props, "State", None)
       IN IF state = None \/ state = "" THEN s
          ELSE LET call_path == Get(kwargs, "path", None)
               IN IF call_path = None THEN s
                  ELSE IF state = "active"
                  THEN IF call_path \in DOMAIN s.calls
                       THEN _mark_active(s, call_path)
                       ELSE _show_window(s, call_path, "Unknown", "active")
                  ELSE IF state = "disconnected" THEN _close_call(s, call_path)
                  ELSE s

on_properties_changed(s, interface, changed_props, kwargs) ==
  IF interface # CALL_IFACE THEN s
  ELSE LET state == Get(changed_props, "State", None)
       IN IF state = None \/ state = "" THEN s
          ELSE LET call_path == Get(kwargs, "path", None)
               IN IF call_path = None THEN s
                  ELSE IF state = "active" THEN _mark_active(s, call_path)
                  ELSE IF state = "disconnected" THEN _close_call(s, call_path)
                  ELSE s

\* answer_call / hangup_call: the remote method either returns or raises;
\* the exception is caught and logged
\* answer_call that marks the call active itself once Answer() has returned
answer_call_optimistic(s, call_path, ok) ==
  LET s1 == Emit(s, Effect("Answer", 0, call_path, ok))
  IN IF ok THEN _mark_active(s1, call_path)
     ELSE Emit(s1, Effect("log", 0, "Answer failed", TRUE))

answer_call(s, call_path, ok) ==
  LET s1 == Emit(s, Effect("Answer", 0, call_path, ok))
  IN IF ok THEN s1
     ELSE Emit(s1, Effect("log", 0, "Answer failed", TRUE))   \* except Exception

hangup_call(s, call_path, ok) ==
  LET s1 == Emit(s, Effect("Hangup", 0, call_path, ok))
  IN IF ok THEN s1
     ELSE Emit(s1, Effect("log", 0, "Hangup failed", TRUE))   \* except Exception

\* a "delete-event" handler that lets GTK go on and destroy the window
delete_event_handler_false == FALSE

\* the "delete-event" handler: lambda *_: True
delete_event_handler == TRUE

\* GTK's default delete-event handling destroys the window unless a handler
\* returned True
delete_event(s, w) ==
  IF delete_event_handler
  THEN Emit(s, Effect("delete-event", w, "", TRUE))
  ELSE destroy(Emit(s, Effect("delete-event", w, "", FALSE)), w)

(* ------------------------------ actions -------------------------------- *)
\* what is kept of a dispatched event: the handler, the path, whether it
\* carried the call interface, the State it carried (None when it carried
\* none), and the source or window it came from
Event(op, path, call, props, id) ==
  [op |-> op, path |-> path, call |-> call,
   state |-> Get(props, "State", None), id |-> id]

\* the step leaves s as the program state, within the bounds of the model
Becomes(s) ==
  /\ Len(s.windows) <= MaxWindows
  /\ s.next_source <= MaxSources + 1
  /\ calls' = s.calls
  /\ windows' = s.windows
  /\ sources' = s.sources
  /\ next_source' = s.next_source
  /\ effects' = s.effects

Init ==
  /\ calls = EmptyDict
  /\ windows = <<>>
  /\ sources = EmptyDict
  /\ next_source = 1
  /\ now = 0
  /\ last = Event("init", None, FALSE, EmptyDict, 0)
  /\ effects = <<>>

InterfacesAdded ==
  \E path \in Paths, interfaces \in InterfacesSet :
    /\ Becomes(on_interfaces_added(Cur, path, interfaces))
    /\ last' = Event("InterfacesAdded", path, CALL_IFACE \in DOMAIN interfaces,
                     Get(interfaces, CALL_IFACE, EmptyDict), 0)
    /\ UNCHANGED now

InterfacesRemoved ==
  \E path \in Paths, interfaces \in RemovedSet :
    /\ Becomes(on_interfaces_removed(Cur, path, interfaces))
    /\ last' = Event("InterfacesRemoved", path, CALL_IFACE \in interfaces, EmptyDict, 0)
    /\ UNCHANGED now

PropertiesChanged ==
  \E sig \in ChangedSet :
    LET interface == sig[1]
        changed_props == sig[2]
        kwargs == sig[3]
    IN
    /\ Becomes(on_properties_changed(Cur, interface, changed_props, kwargs))
    /\ last' = Event("PropertiesChanged", Get(kwargs, "path", None),
                     interface = CALL_IFACE, changed_props, 0)
    /\ UNCHANGED now

\* a GLib timeout source fires; a callback returning False detaches it
Tick ==
  \E id \in DOMAIN sources :
    LET r == _update_timer(Cur, sources[id].call_path)
    IN /\ Becomes(IF r.ret THEN r.st ELSE [r.st EXCEPT !.sources = Del(@, id)])
       /\ last' = Event("tick", sources[id].call_path, FALSE, EmptyDict, id)
       /\ UNCHANGED now

ClickAnswer ==
  \E w \in DOMAIN windows, ok \in BOOLEAN :
    /\ windows[w].alive /\ windows[w].visible /\ windows[w].answer_sensitive
    /\ Becomes(answer_call(Cur, windows[w].call_path, ok))
    /\ last' = Event("answer", windows[w].call_path, FALSE, EmptyDict, w)
    /\ UNCHANGED now

ClickHangup ==
  \E w \in DOMAIN windows, ok \in BOOLEAN :
    /\ windows[w].alive /\ windows[w].visible /\ windows[w].hangup_sensitive
    /\ Becomes(hangup_call(Cur, windows[w].call_path, ok))
    /\ last' = Event("hangup", windows[w].call_path, FALSE, EmptyDict, w)
    /\ UNCHANGED now

\* the user closes the window from the window manager
DeleteEvent ==
  \E w \in DOMAIN windows :
    /\ windows[w].alive /\ windows[w].visible
    /\ Becomes(delete_event(Cur, w))
    /\ last' = Event("delete-event", windows[w].call_path, FALSE, EmptyDict, w)
    /\ UNCHANGED now

\* the monotonic clock moves on between two events
ClockAdvance ==
  /\ now < MaxTime
  /\ now' = now + 1
  /\ last' = Event("clock", None, FALSE, EmptyDict, 0)
  /\ effects' = <<>>
  /\ UNCHANGED <<calls, windows, sources, next_source>>

Next ==
  \/ InterfacesAdded
  \/ InterfacesRemoved
  \/ PropertiesChanged
  \/ Tick
  \/ ClickAnswer
  \/ ClickHangup
  \/ DeleteEvent
  \/ ClockAdvance

Spec == Init /\ [][Next]_vars

(* ------------------------- properties: helpers ------------------------- *)
Tracked == DOMAIN calls

\* the live timeout sources whose callback is closed over call_path
LiveTimers(s, call_path) ==
  { id \in DOMAIN s.sources : s.sources[id].call_path = call_path }

\* the handler left registry, timers and surfaces as they are in this state
Untouched(s) ==
  /\ s.calls = calls
  /\ s.sources = sources
  /\ s.windows = windows
  /\ s.next_source = next_source

\* InterfacesAdded payloads that carry the call interface with a State
AddedWithState(st) ==
  { i \in InterfacesSet : /\ CALL_IFACE \in DOMAIN i
                          /\ "State" \in DOMAIN i[CALL_IFACE]
                          /\ i[CALL_IFACE]["State"] = st }

\* PropertiesChanged signals of the call interface for one path
ChangedFor(call_path) ==
  { sig \in ChangedSet : sig[1] = CALL_IFACE /\ Get(sig[3], "path", None) = call_path }

HasOp(es, op) == \E i \in DOMAIN es : es[i].op = op

(* -------------------------------- C1 ----------------------------------- *)
\* C1: in every reachable state each tracked call has a live timer handle if
\* and only if its state is active; an incoming call has no timer at all.
C1_TimerIffActive ==
  \A p \in Tracked :
    /\ (calls[p].timer_id # NoTimer /\ calls[p].timer_id \in DOMAIN sources)
         <=> (calls[p].state = "active")
    /\ calls[p].state # "active" => calls[p].timer_id = NoTimer /\ LiveTimers(Cur, p) = {}
    /\ calls[p].state = "active" => sources[calls[p].timer_id].call_path = p

C1_Witness ==
  /\ last.op = "tick"
  /\ \E p \in Tracked : calls[p].state = "active" /\ calls[p].timer_id \in DOMAIN sources
  /\ \E q \in Tracked : calls[q].state = "incoming" /\ calls[q].timer_id = NoTimer

(* -------------------------------- C2 ----------------------------------- *)
\* C2: no call ever has more than one live repeating timer; a duplicate
\* "active" notification cancels the call's timer before it starts the new one.
C2_AtMostOneTimer ==
  /\ \A p \in Paths : Cardinality(LiveTimers(Cur, p)) <= 1
  /\ \A p \in Tracked :
       calls[p].state = "active" =>
         LET sig == <<CALL_IFACE, [k \in {"State"} |-> "active"], [k \in {"path"} |-> p]>>
             r == on_properties_changed(Cur, sig[1], sig[2], sig[3])
         IN /\ Cardinality(LiveTimers(r, p)) = 1
            /\ \E i, j \in DOMAIN r.effects :
                 /\ i < j
                 /\ r.effects[i] = Effect("source_remove", calls[p].timer_id, "", TRUE)
                 /\ r.effects[j].op = "timeout_add_seconds"

C2_Witness ==
  /\ last.op = "PropertiesChanged" /\ last.state = "active"
  /\ \E i, j \in DOMAIN effects :
       /\ i < j
       /\ effects[i].op = "source_remove" /\ effects[i].ok
       /\ effects[j].op = "timeout_add_seconds" /\ effects[j].path = last.path
  /\ Cardinality(LiveTimers(Cur, last.path)) = 1

(* -------------------------------- C3 ----------------------------------- *)
\* C3: once a notification of the call interface has been processed, the popup
\* agrees with the state the backend reported in it: an incoming surface iff
\* the call is incoming, an active surface iff it is active, and no entry
\* once it is disconnected or removed.
C3_AgreesWithBackend ==
  /\ (last.op \in {"InterfacesAdded", "PropertiesChanged"}
        /\ last.call /\ last.path \in Paths /\ last.state # None) =>
       /\ (last.state = "incoming") <=>
            (last.path \in Tracked /\ calls[last.path].state = "incoming")
       /\ (last.state = "active") <=>
            (last.path \in Tracked /\ calls[last.path].state = "active")
       /\ (last.state = "disconnected") => last.path \notin Tracked
  /\ (last.op = "InterfacesRemoved" /\ last.call) => last.path \notin Tracked

(* -------------------------------- C4 ----------------------------------- *)
\* C4: for a path that is not tracked, a state-changed notification with any
\* state value and a removed notification change nothing: no entry, timer or
\* surface is created, and no toolkit call is made.
C4_UntrackedNoOp ==
  \A p \in Paths \ Tracked :
    /\ \A sig \in ChangedFor(p) :
         LET r == on_properties_changed(Cur, sig[1], sig[2], sig[3])
         IN Untouched(r) /\ r.effects = <<>>
    /\ \A interfaces \in RemovedSet :
         LET r == on_interfaces_removed(Cur, p, interfaces)
         IN Untouched(r) /\ r.effects = <<>>

C4_Witness ==
  /\ last.op = "PropertiesChanged" /\ last.call /\ last.state = "active"
  /\ last.path \in Paths \ Tracked
  /\ Tracked # {}

(* -------------------------------- C5 ----------------------------------- *)
\* C5: an appeared notification with state "incoming" for an untracked path
\* adds exactly one entry, in state incoming with start_time unset and no
\* timer, and creates and shows one incoming-call surface for it.
C5_AppearedIncoming ==
  \A p \in Paths \ Tracked : \A interfaces \in AddedWithState("incoming") :
    LET r == on_interfaces_added(Cur, p, interfaces)
        w == Len(windows) + 1
    IN /\ DOMAIN r.calls = Tracked \cup {p}
       /\ \A q \in Tracked : r.calls[q] = calls[q]
       /\ r.calls[p].state = "incoming"
       /\ r.calls[p].start_time = NoTime
       /\ r.calls[p].timer_id = NoTimer
       /\ r.calls[p].window = w
       /\ r.sources = sources /\ r.next_source = next_source
       /\ Len(r.windows) = w
       /\ \A v \in DOMAIN windows : r.windows[v] = windows[v]
       /\ r.windows[w].call_path = p
       /\ r.windows[w].alive /\ r.windows[w].visible
       /\ r.windows[w].state_label = "Incoming call"
       /\ r.windows[w].answer_sensitive /\ r.windows[w].hangup_sensitive
       /\ r.effects = <<Effect("show_all", w, "", TRUE), Effect("present", w, "", TRUE)>>

C5_Witness ==
  /\ last.op = "InterfacesAdded" /\ last.state = "incoming"
  /\ last.path \in Tracked
  /\ calls[last.path].state = "incoming"
  /\ calls[last.path].window = Len(windows)
  /\ effects = <<Effect("show_all", Len(windows), "", TRUE),
                 Effect("present", Len(windows), "", TRUE)>>

(* -------------------------------- C6 ----------------------------------- *)
\* C6: an appeared notification for a path that is already tracked leaves the
\* registry, the timers and the surfaces as they are, whatever state it
\* reports and whether the tracked call is incoming or active.
C6_AppearedAgainIdempotent ==
  \A p \in Tracked : \A interfaces \in InterfacesSet :
    Untouched(on_interfaces_added(Cur, p, interfaces))

C6_Witness ==
  /\ last.op = "InterfacesAdded" /\ last.state = "incoming"
  /\ last.path \in Tracked
  /\ calls[last.path].state = "active"
  /\ effects = <<Effect("present", calls[last.path].window, "", TRUE)>>

(* -------------------------------- C7 ----------------------------------- *)
\* C7 as stated: an appeared notification for a tracked path re-presents the
\* call's surface for every reported state.
C7_PresentedForEveryState ==
  \A p \in Tracked : \A st \in States : \A interfaces \in AddedWithState(st) :
    on_interfaces_added(Cur, p, interfaces).effects
      = <<Effect("present", calls[p].window, "", TRUE)>>

\* C7 amended: an appeared notification for a tracked path re-presents the
\* call's surface when it reports "incoming", and makes no toolkit call and
\* changes nothing when it reports any other state.
C7_PresentedOnlyForIncoming ==
  \A p \in Tracked : \A st \in States : \A interfaces \in AddedWithState(st) :
    LET r == on_interfaces_added(Cur, p, interfaces)
    IN /\ Untouched(r)
       /\ r.effects = IF st = "incoming"
                      THEN <<Effect("present", calls[p].window, "", TRUE)>>
                      ELSE <<>>

C7_Witness ==
  /\ last.op = "InterfacesAdded" /\ last.call /\ last.state = "active"
  /\ last.path \in Tracked
  /\ effects = <<>>

(* -------------------------------- C8 ----------------------------------- *)
\* C8: an appeared notification for an untracked path that reports any state
\* but "incoming" creates no entry, surface or timer, and a state-changed
\* notification that follows it, "active" included, changes nothing either.
C8_AppearedOtherStateIgnored ==
  \A p \in Paths \ Tracked : \A st \in States \ {"incoming"} :
    \A interfaces \in AddedWithState(st) :
      LET r == on_interfaces_added(Cur, p, interfaces)
      IN /\ Untouched(r) /\ r.effects = <<>>
         /\ \A sig \in ChangedFor(p) :
              LET r2 == on_properties_changed(r, sig[1], sig[2], sig[3])
              IN Untouched(r2) /\ r2.effects = <<>>

C8_Witness ==
  /\ last.op = "InterfacesAdded" /\ last.call /\ last.state = "active"
  /\ last.path \in Paths \ Tracked
  /\ effects = <<>>

(* -------------------------------- C9 ----------------------------------- *)
\* C9: "active" for a tracked incoming call makes it active in one step:
\* start_time is the current time, the surface is in active mode, and one
\* 1-second repeating timer closed over the call is running.
C9_IncomingToActive ==
  \A p \in Tracked :
    calls[p].state = "incoming" =>
      LET r == on_properties_changed(Cur, CALL_IFACE, [k \in {"State"} |-> "active"],
                                     [k \in {"path"} |-> p])
          w == calls[p].window
      IN /\ DOMAIN r.calls = Tracked
         /\ \A q \in Tracked \ {p} : r.calls[q] = calls[q]
         /\ r.calls[p] = [calls[p] EXCEPT !.state = "active", !.start_time = now,
                                          !.timer_id = next_source]
         /\ r.sources = Put(sources, next_source, [interval |-> 1, call_path |-> p])
         /\ LiveTimers(r, p) = {next_source}
         /\ r.windows = [windows EXCEPT ![w].state_label = "Call in progress",
                                        ![w].answer_sensitive = FALSE,
                                        ![w].hangup_sensitive = TRUE,
                                        ![w].timer_label = "00:00"]
         /\ r.effects = <<Effect("present", w, "", TRUE),
                          Effect("timeout_add_seconds", next_source, p, TRUE)>>

C9_Witness ==
  /\ last.op = "PropertiesChanged" /\ last.state = "active"
  /\ last.path \in Tracked
  /\ calls[last.path].state = "active"
  /\ calls[last.path].start_time = now /\ now > 0
  /\ ~HasOp(effects, "source_remove")
  /\ windows[calls[last.path].window].state_label = "Call in progress"

(* -------------------------------- C10 ---------------------------------- *)
\* C10: for a tracked call, incoming or active, a removed notification and a
\* "disconnected" state change do the same thing: the call's timer is
\* cancelled, its surface destroyed and its entry removed; no entry stays in
\* the registry in an ended state.
C10_RemovedSameAsDisconnected ==
  /\ \A p \in Tracked :
       LET r == on_interfaces_removed(Cur, p, {CALL_IFACE})
           d == on_properties_changed(Cur, CALL_IFACE, [k \in {"State"} |-> "disconnected"],
                                      [k \in {"path"} |-> p])
       IN /\ r = d
          /\ r.calls = Del(calls, p)
          /\ LiveTimers(r, p) = {}
          /\ r.sources = Del(sources, calls[p].timer_id)
          /\ r.windows = [windows EXCEPT ![calls[p].window] = Destroyed(@)]
          /\ ~r.windows[calls[p].window].alive
  /\ \A p \in Tracked : calls[p].state \notin {"disconnected", "ended"}

C10_Witness ==
  /\ last.op = "PropertiesChanged" /\ last.state = "disconnected"
  /\ last.path \in Paths \ Tracked
  /\ LiveTimers(Cur, last.path) = {}
  /\ \E i, j \in DOMAIN effects :
       /\ effects[i].op = "source_remove" /\ effects[i].ok
       /\ effects[j].op = "destroy" /\ effects[j].ok
       /\ windows[effects[j].id].call_path = last.path

(* -------------------------------- C11 ---------------------------------- *)
\* the step removed the entry of path p on a notification that ends the call
EndedBy(p) ==
  /\ last'.call /\ last'.path = p
  /\ \/ last'.op = "InterfacesRemoved"
     \/ last'.op = "PropertiesChanged" /\ last'.state = "disconnected"

\* C11: in every step an entry keeps its state or goes from incoming to
\* active; an entry leaves the registry only on a removed or "disconnected"
\* notification for its path; a new entry starts incoming; and every entry is
\* incoming or active.
C11_OnlyIncomingToActive ==
  [][ /\ \A p \in (DOMAIN calls) \cap (DOMAIN calls') :
           /\ calls'[p].window = calls[p].window
           /\ \/ calls'[p].state = calls[p].state
              \/ calls[p].state = "incoming" /\ calls'[p].state = "active"
      /\ \A p \in (DOMAIN calls) \ (DOMAIN calls') : EndedBy(p)
      /\ \A p \in (DOMAIN calls') \ (DOMAIN calls) : calls'[p].state = "incoming"
      /\ \A p \in DOMAIN calls' : calls'[p].state \in {"incoming", "active"}
    ]_vars

C11_Witness ==
  /\ last.op = "PropertiesChanged" /\ last.call /\ last.state = "dialing"
  /\ last.path \in Tracked
  /\ calls[last.path].state = "active"

(* -------------------------------- C12 ---------------------------------- *)
\* C12: answer_call and hangup_call, for any path and whether the remote
\* method returns or raises, leave registry, timers and surfaces as they are;
\* they make the one remote call, log a failure and let no exception out.
C12_RemoteActionsKeepState ==
  /\ \A p \in Paths : \A ok \in BOOLEAN :
       LET a == answer_call(Cur, p, ok)
           h == hangup_call(Cur, p, ok)
       IN /\ Untouched(a) /\ Untouched(h)
          /\ a.effects[1] = Effect("Answer", 0, p, ok)
          /\ h.effects[1] = Effect("Hangup", 0, p, ok)
          /\ Len(a.effects) = (IF ok THEN 1 ELSE 2)
          /\ Len(h.effects) = (IF ok THEN 1 ELSE 2)
          /\ ~ok => a.effects[2].op = "log" /\ h.effects[2].op = "log"
  /\ last.op \in {"answer", "hangup"} =>
       \A i \in DOMAIN effects : effects[i].op \in {"Answer", "Hangup", "log"}

C12_Witness ==
  /\ last.op = "answer"
  /\ effects = <<Effect("Answer", 0, last.path, FALSE),
                 Effect("log", 0, "Answer failed", TRUE)>>
  /\ last.path \in Tracked
  /\ calls[last.path].state = "incoming"
  /\ calls[last.path].timer_id = NoTimer

(* -------------------------------- C13 ---------------------------------- *)
\* C13: _update_timer for a path that is untracked or not active changes
\* nothing and returns False; for an active call it returns True and changes
\* only that call's timer label.  No timeout source outlives its call, so no
\* tick reaches a surface after the call was removed or disconnected.
C13_TickOnlyWhileActive ==
  /\ \A p \in Paths :
       LET r == _update_timer(Cur, p)
       IN IF p \in Tracked /\ calls[p].state = "active"
          THEN /\ r.ret = TRUE
               /\ r.st.calls = calls /\ r.st.sources = sources
               /\ r.st.next_source = next_source /\ r.st.effects = <<>>
               /\ \E lbl \in {r.st.windows[calls[p].window].timer_label} :
                    r.st.windows = [windows EXCEPT ![calls[p].window].timer_label = lbl]
          ELSE r.ret = FALSE /\ r.st = Cur
  /\ \A id \in DOMAIN sources :
       /\ sources[id].call_path \in Tracked
       /\ calls[sources[id].call_path].timer_id = id
  /\ \A w \in DOMAIN windows : ~windows[w].alive => windows[w].timer_label = ""

C13_Witness ==
  /\ last.op = "tick"
  /\ last.path \in Tracked
  /\ calls[last.path].state = "active"
  /\ now = calls[last.path].start_time + 1
  /\ windows[calls[last.path].window].timer_label = "00:00"
  /\ \E w \in DOMAIN windows : ~windows[w].alive

(* -------------------------------- C14 ---------------------------------- *)
\* C14: start_time is unset for every incoming call, and once a call is
\* active no step changes its start_time, a duplicate "active" included.
C14_StartTimeSetOnce ==
  [][ /\ \A p \in DOMAIN calls' :
           calls'[p].state = "incoming" => calls'[p].start_time = NoTime
      /\ \A p \in (DOMAIN calls) \cap (DOMAIN calls') :
           calls[p].state = "active" => calls'[p].start_time = calls[p].start_time
    ]_vars

(* -------------------------------- C15 ---------------------------------- *)
\* C15: a window close requested by the user is swallowed by the
\* "delete-event" handler: the window is not destroyed, registry, timers and
\* surfaces stay as they are, and no remote method is called.
C15_DeleteEventNoOp ==
  /\ \A w \in DOMAIN windows :
       windows[w].alive =>
         LET r == delete_event(Cur, w)
         IN /\ Untouched(r)
            /\ r.effects = <<Effect("delete-event", w, "", TRUE)>>
  /\ \A p \in Tracked :
       /\ windows[calls[p].window].alive
       /\ windows[calls[p].window].visible

C15_Witness ==
  /\ last.op = "delete-event"
  /\ last.path \in Tracked
  /\ calls[last.path].window = last.id
  /\ calls[last.path].state = "active"
  /\ windows[last.id].alive /\ windows[last.id].visible
  /\ calls[last.path].timer_id \in DOMAIN sources
  /\ effects = <<Effect("delete-event", last.id, "", TRUE)>>

(* -------------------------------- C16 ---------------------------------- *)
\* a PropertiesChanged signal the handler has to drop: not the call
\* interface, no path, or a State that is missing, empty or neither "active"
\* nor "disconnected"
Irrelevant(sig) ==
  \/ sig[1] # CALL_IFACE
  \/ "path" \notin DOMAIN sig[3]
  \/ Get(sig[2], "State", None) \notin {"active", "disconnected"}

\* C16: a state-changed notification that is malformed or irrelevant, and an
\* appeared or removed notification without the call interface, change
\* nothing and make no toolkit call, for tracked and untracked paths alike.
C16_MalformedIgnored ==
  /\ \A sig \in ChangedSet :
       Irrelevant(sig) =>
         LET r == on_properties_changed(Cur, sig[1], sig[2], sig[3])
         IN Untouched(r) /\ r.effects = <<>>
  /\ \A p \in Paths :
       /\ \A interfaces \in InterfacesSet :
            (CALL_IFACE \notin DOMAIN interfaces \/ DOMAIN interfaces[CALL_IFACE] = {}) =>
              LET r == on_interfaces_added(Cur, p, interfaces)
              IN Untouched(r) /\ r.effects = <<>>
       /\ \A interfaces \in RemovedSet :
            CALL_IFACE \notin interfaces =>
              LET r == on_interfaces_removed(Cur, p, interfaces)
              IN Untouched(r) /\ r.effects = <<>>

C16_Witness ==
  /\ last.op = "PropertiesChanged" /\ ~last.call /\ last.state = "disconnected"
  /\ last.path \in Tracked
  /\ calls[last.path].state = "active"
  /\ effects = <<>>

(* -------------------------------- C17 ---------------------------------- *)
\* C17 as stated: every appeared notification of the call interface leaves
\* its path in the registry, and an entry leaves the registry only when the
\* removed notification for its path is processed.
C17_PresentUntilRemoved ==
  [][ /\ (last'.op = "InterfacesAdded" /\ last'.call /\ last'.state # None) =>
           last'.path \in DOMAIN calls'
      /\ \A p \in (DOMAIN calls) \ (DOMAIN calls') :
           last'.op = "InterfacesRemoved" /\ last'.call /\ last'.path = p
    ]_vars

\* C17 amended: an appeared notification reporting "incoming" leaves its path
\* in the registry and one reporting anything else adds no entry; an entry
\* leaves the registry only when a removed notification or a "disconnected"
\* state change for its path is processed, and then it does leave; each path
\* has one entry with a window of its own.
C17_IncomingPresentUntilEnded ==
  [][ /\ (last'.op = "InterfacesAdded" /\ last'.call /\ last'.state = "incoming") =>
           last'.path \in DOMAIN calls'
      /\ (last'.op = "InterfacesAdded" /\ last'.state # "incoming") =>
           DOMAIN calls' = DOMAIN calls
      /\ \A p \in (DOMAIN calls) \ (DOMAIN calls') : EndedBy(p)
      /\ \A p \in Paths : EndedBy(p) => p \notin DOMAIN calls'
      /\ \A p, q \in DOMAIN calls' :
           /\ windows'[calls'[p].window].call_path = p
           /\ p # q => calls'[p].window # calls'[q].window
    ]_vars

C17_Witness ==
  /\ last.op = "InterfacesAdded" /\ last.call /\ last.state = "incoming"
  /\ Tracked = Paths
  /\ calls[last.path].window = Len(windows)
  /\ HasOp(effects, "show_all")
  /\ \E q \in Tracked : calls[q].state = "active"

(* -------------------------------- C18 ---------------------------------- *)
MaxSeconds == 125      \* largest elapsed value of the range checked

\* the two-digit fields 00 .. 59
TwoDigits ==
  <<
     "00", "01", "02", "03", "04", "05", "06", "07", "08", "09", "10",
     "11", "12", "13", "14", "15", "16", "17", "18", "19", "20", "21",
     "22", "23", "24", "25", "26", "27", "28", "29", "30", "31", "32",
     "33", "34", "35", "36", "37", "38", "39", "40", "41", "42", "43",
     "44", "45", "46", "47", "48", "49", "50", "51", "52", "53", "54",
     "55", "56", "57", "58", "59"
  >>

\* mm:ss of an elapsed value below one hour
MmSs(e) ==
  IF e < 0 THEN "00:00"
  ELSE TwoDigits[(e \div 60) + 1] \o ":" \o TwoDigits[(e % 60) + 1]

\* C18: after a tick, the label of every active call is the mm:ss of the
\* whole seconds since start_time, and update_timer_label renders any elapsed
\* value e as max(e,0) div 60 and max(e,0) mod 60 in two-digit fields:
\* 65 gives 01:05, a negative value 00:00, and minutes run on past 59.
C18_TimerLabel ==
  last.op = "tick" =>
    \A p \in Tracked :
      calls[p].state = "active" =>
        LET w == calls[p].window
            Label(e) == update_timer_label(Cur, w, e).windows[w].timer_label
            el == Elapsed(calls[p].start_time)
        IN /\ \A e \in (-3)..MaxSeconds : Label(e) = MmSs(e)
           /\ Label(65) = "01:05"
           /\ Label(3599) = "59:59"
           /\ Label(3600) = "60:00"
           /\ Label(3661) = "61:01"
           /\ Label(6000) = "100:00"
           /\ el * Res <= now - calls[p].start_time
           /\ now - calls[p].start_time < (el + 1) * Res
           /\ _update_timer(Cur, p).st.windows[w].timer_label = MmSs(el)
           /\ p = last.path => windows[w].timer_label = MmSs(el)

C18_Witness ==
  /\ last.op = "tick"
  /\ last.path \in Tracked
  /\ calls[last.path].state = "active"
  /\ now - calls[last.path].start_time >= Res
  /\ windows[calls[last.path].window].timer_label = "00:01"

(* -------------------------------- C19 ---------------------------------- *)
\* C19: no step cancels a source that is no longer attached or destroys a
\* window that is already destroyed; closing a call cancels its timer once
\* and destroys its window once, the "destroy" callback that runs inside
\* finding no entry; and the live windows are exactly the windows of the
\* registry entries, one each.
C19_ReleasedOnce ==
  /\ \A i \in DOMAIN effects :
       effects[i].op \in {"source_remove", "destroy", "present"} => effects[i].ok
  /\ \A p \in Tracked :
       LET r == _close_call(Cur, p)
           w == calls[p].window
       IN /\ r.effects =
               (IF calls[p].timer_id # NoTimer
                THEN <<Effect("source_remove", calls[p].timer_id, "", TRUE)>>
                ELSE <<>>) \o <<Effect("destroy", w, "", TRUE)>>
          /\ r.calls = Del(calls, p)
          /\ \A v \in DOMAIN windows : v # w => r.windows[v] = windows[v]
          /\ _close_call(r, p) = r
  /\ \A w \in DOMAIN windows :
       windows[w].alive <=>
         \E p \in Tracked : calls[p].window = w /\ windows[w].call_path = p
  /\ \A p, q \in Tracked : calls[p].window = calls[q].window => p = q
  /\ \A id \in DOMAIN sources : id < next_source

C19_Witness ==
  /\ last.op = "InterfacesRemoved" /\ last.call
  /\ Len(windows) = 2
  /\ windows[1].call_path = last.path /\ windows[2].call_path = last.path
  /\ ~windows[1].alive /\ ~windows[2].alive
  /\ effects = <<Effect("source_remove", next_source - 1, "", TRUE),
                 Effect("destroy", 2, "", TRUE)>>

(* -------------------------------- C20 ---------------------------------- *)
\* C20: the Answer button of a tracked call's window is sensitive exactly
\* while the call is incoming, and the Hang up button is sensitive in both
\* states; a repeated appeared notification does not enable Answer again.
C20_AnswerIffIncoming ==
  /\ \A p \in Tracked :
       LET win == windows[calls[p].window]
       IN /\ win.answer_sensitive <=> (calls[p].state = "incoming")
          /\ win.hangup_sensitive
          /\ win.state_label = (IF calls[p].state = "incoming"
                                THEN "Incoming call" ELSE "Call in progress")
  /\ \A p \in Tracked : \A interfaces \in InterfacesSet :
       on_interfaces_added(Cur, p, interfaces).windows = windows

C20_Witness ==
  /\ last.op = "InterfacesAdded" /\ last.call /\ last.state = "incoming"
  /\ last.path \in Tracked
  /\ calls[last.path].state = "active"
  /\ ~windows[calls[last.path].window].answer_sensitive
  /\ windows[calls[last.path].window].hangup_sensitive
  /\ now > calls[last.path].start_time

====
